---- MODULE Spec2Model ----
\* weave-npc (prog/weave-npc/main.go): start-up of the network policy
\* controller.  The process resets the packet-filter chains and the ipsets it
\* owns, installs the static base rules, and then starts three watch loops
\* that feed the policy engine.
EXTENDS Integers, Sequences, FiniteSets, TLC

\* ---------------------------------------------------------------- bounds
\* How many times the supervisor restarts the process in one behaviour.
MaxRestarts == 1
\* How many watch events the API server delivers to one process: when the
\* process starts on any packet-filter state, and when it starts on an empty one.
StartupEvents == 1
MaxEvents == 2
\* How long the rule lists handed to addChainWithRules on its own are.
MaxRules == 2

\* ------------------------------------------------- names of package npc
IngressChain       == "WEAVE-NPC-INGRESS"
DefaultChain       == "WEAVE-NPC-DEFAULT"
MainChain          == "WEAVE-NPC"
EgressMarkChain    == "WEAVE-NPC-EGRESS-ACCEPT"
EgressCustomChain  == "WEAVE-NPC-EGRESS-CUSTOM"
EgressDefaultChain == "WEAVE-NPC-EGRESS-DEFAULT"
EgressChain        == "WEAVE-NPC-EGRESS"
EgressMark         == "0x40000/0x40000"
IpsetNamePrefix    == "weave-"
LocalIpset         == "weave-local-pods"

ChainNames == {IngressChain, DefaultChain, MainChain, EgressMarkChain,
               EgressCustomChain, EgressDefaultChain, EgressChain}

\* Sets of the node: the local-pods set, two sets the policy engine made (a
\* list of sets and an address set), and one set owned by somebody else.
NsSet      == "weave-ns"
PodSet     == "weave-k"
ForeignSet == "other"
SetNames   == {LocalIpset, NsSet, PodSet, ForeignSet}
PodAddr    == "10.32.0.1"

\* A string as the sequence of its pieces, so that a prefix test is computed.
Pieces(s) ==
  CASE s = IpsetNamePrefix -> <<"weave-">>
    [] s = LocalIpset      -> <<"weave-", "local-pods">>
    [] s = NsSet           -> <<"weave-", "ns">>
    [] s = PodSet          -> <<"weave-", "k">>
    [] OTHER               -> <<s>>

\* strings.HasPrefix
HasPrefix(s, prefix) ==
  /\ Len(Pieces(prefix)) <= Len(Pieces(s))
  /\ SubSeq(Pieces(s), 1, Len(Pieces(prefix))) = Pieces(prefix)

\* strings.Join: the text is kept as the sequence of its elements and
\* separators; an element that is itself a text is spliced in.
RECURSIVE Join(_, _)
Join(elems, sep) ==
  IF elems = <<>> THEN <<>>
  ELSE IF Len(elems) = 1 THEN Head(elems)
  ELSE Head(elems) \o <<sep>> \o Join(Tail(elems), sep)

\* A rule specification ([]string) rendered as one text: its tokens, each a
\* one-element text, joined by a blank.
JoinTokens(r) == Join([k \in 1..Len(r) |-> <<r[k]>>], " ")

\* ------------------------------------------------------- the rule lists
RuleEstablishedAccept == <<"-m", "state", "--state", "RELATED,ESTABLISHED", "-j", "ACCEPT">>
RuleMcastAccept       == <<"-d", "224.0.0.0/4", "-j", "ACCEPT">>
RuleNewDefault        == <<"-m", "state", "--state", "NEW", "-j", DefaultChain>>
RuleNewIngress        == <<"-m", "state", "--state", "NEW", "-j", IngressChain>>
RuleNotLocalAccept    == <<"-m", "set", "!", "--match-set", LocalIpset, "dst", "-j", "ACCEPT">>
RuleMark              == <<"-j", "MARK", "--set-xmark", EgressMark>>

RuleEstablishedReturn == <<"-m", "state", "--state", "RELATED,ESTABLISHED", "-j", "RETURN">>
RuleNotLocalReturn    == <<"-m", "state", "--state", "NEW", "-m", "set", "!", "--match-set", LocalIpset, "src", "-j", "RETURN">>
RuleMcastReturn       == <<"-d", "224.0.0.0/4", "-j", "RETURN">>
RuleNewEgressDefault  == <<"-m", "state", "--state", "NEW", "-j", EgressDefaultChain>>
RuleNewEgressCustom   == <<"-m", "state", "--state", "NEW", "-m", "mark", "!", "--mark", EgressMark, "-j", EgressCustomChain>>
RuleNflog             == <<"-m", "state", "--state", "NEW", "-m", "mark", "!", "--mark", EgressMark, "-j", "NFLOG", "--nflog-group", "86">>
RuleDrop              == <<"-m", "mark", "!", "--mark", EgressMark, "-j", "DROP">>

\* createBaseRules with the jumps to the default and ingress chains swapped.
MainHeadRulesSwapped(mcast) ==
  <<RuleEstablishedAccept>>
    \o (IF mcast THEN <<RuleMcastAccept>> ELSE <<>>)
    \o <<RuleNewIngress, RuleNewDefault>>

\* The appends createBaseRules makes to the main chain before it looks for
\* the local-pods set.
MainHeadRules(mcast) ==
  <<RuleEstablishedAccept>>
    \o (IF mcast THEN <<RuleMcastAccept>> ELSE <<>>)
    \o <<RuleNewDefault, RuleNewIngress>>

\* ruleSpecs with the jump to the custom chain ahead of the default chain.
EgressRuleSpecsSwapped(mcast) ==
  <<RuleEstablishedReturn, RuleNotLocalReturn>>
    \o (IF mcast THEN <<RuleMcastReturn>> ELSE <<>>)
    \o <<RuleNewEgressCustom, RuleNewEgressDefault, RuleNflog, RuleDrop>>

\* ruleSpecs of createBaseRules: the rule list of the egress chain.
EgressRuleSpecs(mcast) ==
  <<RuleEstablishedReturn, RuleNotLocalReturn>>
    \o (IF mcast THEN <<RuleMcastReturn>> ELSE <<>>)
    \o <<RuleNewEgressDefault, RuleNewEgressCustom, RuleNflog, RuleDrop>>

\* A rule the policy engine left behind: it matches on one of its sets.
PolicyRule(s) == <<"-m", "set", "--match-set", s, "src", "-j", "ACCEPT">>

\* ------------------------------------------- the chain and set backends
NoChain == [exists |-> FALSE, rules |-> <<>>]
Chain(rs) == [exists |-> TRUE, rules |-> rs]
NoSet == [exists |-> FALSE, members |-> {}]
Set(ms) == [exists |-> TRUE, members |-> ms]

\* iptables: flush the chain, creating it when it does not exist.
IptClearChain(cs, chain) == [cs EXCEPT ![chain] = Chain(<<>>)]

\* iptables -A: appends the rule at the end of the chain.
IptAppend(cs, chain, rulespec) ==
  [cs EXCEPT ![chain].rules = Append(@, rulespec)]

\* iptables -N: fails on a chain that exists.
CanIptNewChain(cs, chain) == ~cs[chain].exists
IptNewChain(cs, chain) == [cs EXCEPT ![chain] = Chain(<<>>)]

\* iptables -S: the chain's declaration, then one line per rule.
CanIptList(cs, chain) == cs[chain].exists
IptList(cs, chain) ==
  << <<"-N", " ", chain>> >>
    \o [k \in 1..Len(cs[chain].rules) |-> JoinTokens(cs[chain].rules[k])]

\* ipset list: the names of the sets that carry the prefix.
IpsetList(ss, prefix) == {s \in SetNames : ss[s].exists /\ HasPrefix(s, prefix)}

\* ipset flush
IpsetFlush(ss, s) == [ss EXCEPT ![s].members = {}]

\* The sets a rule matches on, the chain it jumps to, and whether anything
\* still refers to a set.
RuleRefs(r) == {r[k + 1] : k \in {j \in 1..(Len(r) - 1) : r[j] = "--match-set"}}
RuleJumps(r) == {r[k + 1] : k \in {j \in 1..(Len(r) - 1) : r[j] = "-j"}} \cap ChainNames
ChainRefs(cs, chain) == UNION {RuleRefs(cs[chain].rules[k]) : k \in 1..Len(cs[chain].rules)}
InUse(cs, ss, s) ==
  \/ \E c \in ChainNames : s \in ChainRefs(cs, c)
  \/ \E t \in SetNames : ss[t].exists /\ s \in ss[t].members

\* ipset destroy: fails while the set is in use.
CanDestroy(cs, ss, s) == ss[s].exists /\ ~InUse(cs, ss, s)
IpsetDestroy(ss, s) == [ss EXCEPT ![s] = NoSet]

\* iptables -A fails when the chain, a set the rule matches on or the chain
\* the rule jumps to does not exist.
CanIptAppend(cs, ss, chain, rulespec) ==
  /\ cs[chain].exists
  /\ \A s \in RuleRefs(rulespec) : s \in SetNames /\ ss[s].exists
  /\ \A c \in RuleJumps(rulespec) : cs[c].exists

\* ipset create: fails on a set that exists.
CanCreate(ss, s) == ~ss[s].exists
IpsetCreate(ss, s) == [ss EXCEPT ![s] = Set({})]

\* ------------------------------------------------------------ the state
VARIABLES
  chains,      \* the filter table: chain name -> [exists, rules]
  ipsets,      \* set name -> [exists, members]
  allowMcast,  \* flag --allow-mcast
  legacy,      \* flag --use-legacy-netpol
  pc,          \* where root() stands
  i,           \* index of the loop or of the straight-line step under way
  sets,        \* resetIPSets: the listed set names
  found,       \* createBaseRules: the answer of ipsetExist
  lastErr,     \* whether the last backend call returned an error
  started,     \* the controllers whose Run goroutine was started
  observed,    \* per resource, the events its watch delivered to this process
  calls,       \* per resource, the policy engine calls made by this process
  inflight,    \* per resource, whether a policy engine call has not returned yet
  budget,      \* watch events the API server delivers to one process
  quota,       \* watch events it will still deliver to this process
  restarts,    \* restarts of the process so far
  egress0,     \* the egress chain when this process started
  ipsets0,     \* the sets when this process started
  dirty0,      \* whether one of the six cleared chains was missing or had rules then
  argChain,    \* addChainWithRules called on its own: the chain ...
  argRules,    \* ... and the rule list it is given
  ncall,       \* how many such calls were made
  before,      \* the chain when the call under way (or the last one) was made
  before1,     \* the chain when the first call was made
  empty0       \* whether there was no chain and no set at all then

vars == <<chains, ipsets, allowMcast, legacy, pc, i, sets, found, lastErr,
          started, observed, calls, inflight, budget, quota, restarts, egress0,
          ipsets0, dirty0, empty0, argChain, argRules, ncall, before, before1>>

reconcile == <<argChain, argRules, ncall, before, before1>>
flags == <<allowMcast, legacy, budget, reconcile>>
watch == <<started, observed, calls, inflight, quota>>
ghost == <<restarts, egress0, ipsets0, dirty0, empty0>>

\* The three resources root() makes a controller for, in the order of its go
\* statements.
Resources == <<"namespaces", "pods", "networkpolicies">>

\* resetIPTables without its last ClearChain.
ClearOrderShort ==
  <<IngressChain, DefaultChain, MainChain, EgressMarkChain, EgressCustomChain>>

\* resetIPTables clearing the egress chain as well.
ClearOrderAll ==
  <<IngressChain, DefaultChain, MainChain, EgressMarkChain,
    EgressCustomChain, EgressDefaultChain, EgressChain>>

\* The chains resetIPTables clears, in the order of its calls.
ClearOrder ==
  <<IngressChain, DefaultChain, MainChain, EgressMarkChain,
    EgressCustomChain, EgressDefaultChain>>

Range(f) == {f[k] : k \in DOMAIN f}
Orders(S) == {q \in [1..Cardinality(S) -> S] : Range(q) = S}

Dirty(cs) == \E c \in ChainNames \ {EgressChain} : cs[c] # Chain(<<>>)
Empty(cs, ss) ==
  /\ \A c \in ChainNames : ~cs[c].exists
  /\ \A s \in SetNames : ~ss[s].exists

\* What an earlier run, an earlier configuration or the policy engine may
\* have left in the packet filter.
PriorMain(mcast) == Chain(MainHeadRules(mcast) \o <<RuleNotLocalAccept>>)
PriorChains ==
  {[c \in ChainNames |->
      CASE c = IngressChain       -> ing
        [] c = DefaultChain       -> def
        [] c = MainChain          -> main
        [] c = EgressMarkChain    -> mark
        [] c = EgressCustomChain  -> cus
        [] c = EgressDefaultChain -> edef
        [] c = EgressChain        -> egr] :
     ing \in {NoChain, Chain(<<>>), Chain(<<PolicyRule(PodSet)>>)},
     def \in {NoChain, Chain(<<PolicyRule(PodSet)>>)},
     main \in {NoChain, PriorMain(TRUE), PriorMain(FALSE)},
     mark \in {NoChain, Chain(<<RuleMark>>)},
     cus \in {NoChain, Chain(<<PolicyRule(PodSet)>>)},
     edef \in {NoChain, Chain(<<PolicyRule(PodSet)>>)},
     egr \in {NoChain, Chain(EgressRuleSpecs(TRUE)), Chain(EgressRuleSpecs(FALSE)),
              Chain(SubSeq(EgressRuleSpecs(TRUE), 1, 3)),
              Chain(<<PolicyRule(PodSet)>>)}}

PriorSets ==
  {[s \in SetNames |->
      CASE s = LocalIpset -> loc
        [] s = NsSet      -> ns
        [] s = PodSet     -> pod
        [] s = ForeignSet -> oth] :
     oth \in {NoSet, Set({PodAddr})},
     loc \in {NoSet, Set({}), Set({PodAddr})},
     ns \in {NoSet, Set({}), Set({PodSet})},
     pod \in {NoSet, Set({PodAddr})}}

\* A rule or a set can only name a set or a chain that exists.
Consistent(cs, ss) ==
  /\ \A c \in ChainNames : \A k \in 1..Len(cs[c].rules) :
       /\ \A s \in RuleRefs(cs[c].rules[k]) : ss[s].exists
       /\ \A d \in RuleJumps(cs[c].rules[k]) : cs[d].exists
  /\ \A s \in SetNames : \A m \in ss[s].members \cap SetNames : ss[m].exists

\* root() up to its first backend call (lines 233-268).
Start(cs, ss) ==
  /\ pc = "resetIPTables"
  /\ i = 1
  /\ sets = <<>>
  /\ found = FALSE
  /\ lastErr = FALSE
  /\ started = {}
  /\ observed = [r \in Range(Resources) |-> <<>>]
  /\ calls = [r \in Range(Resources) |-> <<>>]
  /\ inflight = [r \in Range(Resources) |-> FALSE]
  /\ egress0 = cs[EgressChain]
  /\ ipsets0 = ss
  /\ dirty0 = Dirty(cs)
  /\ empty0 = Empty(cs, ss)

\* root() does not call addChainWithRules on its own.
NoReconcile ==
  /\ argChain = EgressChain
  /\ argRules = <<>>
  /\ ncall = 0
  /\ before = NoChain
  /\ before1 = NoChain

Init ==
  /\ NoReconcile
  /\ chains \in PriorChains
  /\ ipsets \in PriorSets
  /\ Consistent(chains, ipsets)
  /\ allowMcast \in BOOLEAN
  /\ legacy \in BOOLEAN
  /\ restarts = 0
  /\ budget = StartupEvents
  /\ quota = budget
  /\ Start(chains, ipsets)

\* ------------------------------------------------------------- start-up
\* An error that is dropped instead of returned.
handleErrorDropped(err, next) == next

\* `if err != nil { return err }` in the callee and handleError(...) in
\* root(): an error ends the process, anything else goes on.
handleError(err, next) == IF err THEN "fatal" ELSE next

\* The locals of a function that has returned are gone.
Locals(next, idx, listed, fnd) ==
  /\ i' = (IF next \in {"fatal", "exited"} THEN 1 ELSE idx)
  /\ sets' = (IF next \in {"resetIPSets.Flush", "resetIPSets.Destroy"} THEN listed ELSE <<>>)
  /\ found' = (IF next \in {"createBaseRules.Create", "createBaseRules.AppendLocal"}
               THEN fnd ELSE FALSE)

\* resetIPTables: one ClearChain per call of the action.
resetIPTables ==
  /\ pc = "resetIPTables"
  /\ \E err \in BOOLEAN :
       /\ lastErr' = err
       /\ chains' = (IF err THEN chains ELSE IptClearChain(chains, ClearOrder[i]))
       /\ pc' = handleError(err, IF i < Len(ClearOrder) THEN "resetIPTables"
                                 ELSE "resetIPSets.List")
       /\ Locals(pc', IF pc' = "resetIPTables" THEN i + 1 ELSE 1, <<>>, FALSE)
  /\ UNCHANGED <<ipsets, flags, watch, ghost>>

\* resetIPSets: ips.List(npc.IpsetNamePrefix), in the order ipset reports.
resetIPSetsList ==
  /\ pc = "resetIPSets.List"
  /\ \E err \in BOOLEAN :
       /\ lastErr' = err
       /\ \E q \in (IF err THEN {<<>>} ELSE Orders(IpsetList(ipsets, IpsetNamePrefix))) :
            /\ pc' = handleError(err, IF q = <<>> THEN "createBaseRules.Main"
                                      ELSE "resetIPSets.Flush")
            /\ Locals(pc', 1, q, FALSE)
  /\ UNCHANGED <<chains, ipsets, flags, watch, ghost>>

\* The second loop without its `continue`.
NextDestroyAll(q, j) == j

\* The second loop of resetIPSets skips the local-pods set: the first index
\* from j on that it destroys (beyond the list when there is none).
RECURSIVE NextDestroy(_, _)
NextDestroy(q, j) ==
  IF j > Len(q) THEN j
  ELSE IF q[j] = LocalIpset THEN NextDestroy(q, j + 1)
  ELSE j

\* resetIPSets with a first loop that flushes nothing.
resetIPSetsNoFlush ==
  /\ pc = "resetIPSets.Flush"
  /\ lastErr' = FALSE
  /\ pc' = (IF i < Len(sets) THEN "resetIPSets.Flush"
            ELSE IF NextDestroy(sets, 1) <= Len(sets) THEN "resetIPSets.Destroy"
            ELSE "createBaseRules.Main")
  /\ Locals(pc', IF pc' = "resetIPSets.Flush" THEN i + 1
                 ELSE IF pc' = "resetIPSets.Destroy" THEN NextDestroy(sets, 1)
                 ELSE 1, sets, FALSE)
  /\ UNCHANGED <<chains, ipsets, flags, watch, ghost>>

\* resetIPSets, first loop: ips.Flush(s).
resetIPSetsFlush ==
  /\ pc = "resetIPSets.Flush"
  /\ \E err \in BOOLEAN :
       /\ lastErr' = err
       /\ ipsets' = (IF err THEN ipsets ELSE IpsetFlush(ipsets, sets[i]))
       /\ pc' = handleError(err,
                  IF i < Len(sets) THEN "resetIPSets.Flush"
                  ELSE IF NextDestroy(sets, 1) <= Len(sets) THEN "resetIPSets.Destroy"
                  ELSE "createBaseRules.Main")
       /\ Locals(pc', IF pc' = "resetIPSets.Flush" THEN i + 1
                      ELSE IF pc' = "resetIPSets.Destroy" THEN NextDestroy(sets, 1)
                      ELSE 1, sets, FALSE)
  /\ UNCHANGED <<chains, flags, watch, ghost>>

\* resetIPSets, second loop: ips.Destroy(s).
resetIPSetsDestroy ==
  /\ pc = "resetIPSets.Destroy"
  /\ \E err \in (IF CanDestroy(chains, ipsets, sets[i]) THEN BOOLEAN ELSE {TRUE}) :
       /\ lastErr' = err
       /\ ipsets' = (IF err THEN ipsets ELSE IpsetDestroy(ipsets, sets[i]))
       /\ pc' = handleError(err,
                  IF NextDestroy(sets, i + 1) <= Len(sets) THEN "resetIPSets.Destroy"
                  ELSE "createBaseRules.Main")
       /\ Locals(pc', IF pc' = "resetIPSets.Destroy" THEN NextDestroy(sets, i + 1) ELSE 1,
                 sets, FALSE)
  /\ UNCHANGED <<chains, flags, watch, ghost>>

\* One ipt.Append and what follows it.
AppendStep(chain, rulespec, next, idx) ==
  \E err \in (IF CanIptAppend(chains, ipsets, chain, rulespec) THEN BOOLEAN ELSE {TRUE}) :
    /\ lastErr' = err
    /\ chains' = (IF err THEN chains ELSE IptAppend(chains, chain, rulespec))
    /\ pc' = handleError(err, next)
    /\ Locals(pc', idx, <<>>, FALSE)

\* createBaseRules, lines 119-139: the appends to the main chain.
createBaseRulesMain ==
  /\ pc = "createBaseRules.Main"
  /\ IF i < Len(MainHeadRules(allowMcast))
     THEN AppendStep(MainChain, MainHeadRules(allowMcast)[i], "createBaseRules.Main", i + 1)
     ELSE AppendStep(MainChain, MainHeadRules(allowMcast)[i], "createBaseRules.Exist", 1)
  /\ UNCHANGED <<ipsets, flags, watch, ghost>>

\* ipsetExist: lists the sets whose name starts with the name and looks for
\* the name itself.
ipsetExistNever(ss, name) == FALSE

ipsetExist(ss, name) == \E s \in IpsetList(ss, name) : s = name

\* createBaseRules, lines 142-146.
createBaseRulesExist ==
  /\ pc = "createBaseRules.Exist"
  /\ \E err \in BOOLEAN :
       /\ lastErr' = err
       /\ LET fnd == ~err /\ ipsetExist(ipsets, LocalIpset) IN
            /\ pc' = handleError(err, IF fnd THEN "createBaseRules.AppendLocal"
                                      ELSE "createBaseRules.Create")
            /\ Locals(pc', 1, <<>>, fnd)
  /\ UNCHANGED <<chains, ipsets, flags, watch, ghost>>

\* createBaseRules, lines 146-150.
createBaseRulesCreate ==
  /\ pc = "createBaseRules.Create"
  /\ \E err \in (IF CanCreate(ipsets, LocalIpset) THEN BOOLEAN ELSE {TRUE}) :
       /\ lastErr' = err
       /\ ipsets' = (IF err THEN ipsets ELSE IpsetCreate(ipsets, LocalIpset))
       /\ pc' = handleError(err, "createBaseRules.AppendLocal")
       /\ Locals(pc', 1, <<>>, found)
  /\ UNCHANGED <<chains, flags, watch, ghost>>

\* createBaseRules, lines 151-156.
createBaseRulesAppendLocal ==
  /\ pc = "createBaseRules.AppendLocal"
  /\ AppendStep(MainChain, RuleNotLocalAccept,
                IF legacy THEN "go" ELSE "createBaseRules.Mark", 1)
  /\ UNCHANGED <<ipsets, flags, watch, ghost>>

\* createBaseRules, lines 157-160.
createBaseRulesMark ==
  /\ pc = "createBaseRules.Mark"
  /\ AppendStep(EgressMarkChain, RuleMark, "addChainWithRules.NewChain", 1)
  /\ UNCHANGED <<ipsets, flags, watch, ghost>>

\* addChainWithRules, line 189: the error of NewChain is dropped.
addChainWithRulesNewChain(chain) ==
  /\ pc = "addChainWithRules.NewChain"
  /\ \E err \in (IF CanIptNewChain(chains, chain) THEN BOOLEAN ELSE {TRUE}) :
       /\ lastErr' = err
       /\ chains' = (IF err THEN chains ELSE IptNewChain(chains, chain))
  /\ pc' = "addChainWithRules.List"
  /\ Locals(pc', 1, <<>>, FALSE)
  /\ UNCHANGED <<ipsets, flags, watch, ghost>>

\* A comparison that never finds the chain up to date.
SameRulesNever(currRuleSpecs, rulespecs) == FALSE

\* addChainWithRules, lines 196-204: currRules == reqRules.
SameRules(currRuleSpecs, rulespecs) ==
  LET currRules == Join(Tail(currRuleSpecs), "\n")
      rules     == [k \in 1..Len(rulespecs) |-> JoinTokens(rulespecs[k])]
      reqRules  == Join(rules, "\n")
  IN currRules = reqRules

\* A reconciler that does what the comment at lines 185-186 says: flush, then
\* append.
addChainWithRulesListFlush(chain, rulespecs, return) ==
  /\ pc = "addChainWithRules.List"
  /\ \E err \in (IF CanIptList(chains, chain) THEN BOOLEAN ELSE {TRUE}) :
       /\ lastErr' = err
       /\ LET same == SameRules(IptList(chains, chain), rulespecs) IN
            /\ chains' = (IF err \/ same THEN chains ELSE IptClearChain(chains, chain))
            /\ pc' = handleError(err,
                       IF same \/ rulespecs = <<>>
                       THEN return ELSE "addChainWithRules.Append")
  /\ Locals(pc', 1, <<>>, FALSE)
  /\ UNCHANGED <<ipsets, flags, watch, ghost>>

\* addChainWithRules, lines 191-206: list, compare, return when equal.
addChainWithRulesList(chain, rulespecs, return) ==
  /\ pc = "addChainWithRules.List"
  /\ \E err \in (IF CanIptList(chains, chain) THEN BOOLEAN ELSE {TRUE}) :
       /\ lastErr' = err
       /\ pc' = handleError(err,
                  IF SameRules(IptList(chains, chain), rulespecs) \/ rulespecs = <<>>
                  THEN return ELSE "addChainWithRules.Append")
  /\ Locals(pc', 1, <<>>, FALSE)
  /\ UNCHANGED <<chains, ipsets, flags, watch, ghost>>

\* addChainWithRules, lines 208-214: the appends, one per call of the action.
addChainWithRulesAppend(chain, rulespecs, return) ==
  /\ pc = "addChainWithRules.Append"
  /\ IF i < Len(rulespecs)
     THEN AppendStep(chain, rulespecs[i], "addChainWithRules.Append", i + 1)
     ELSE AppendStep(chain, rulespecs[i], return, 1)
  /\ UNCHANGED <<ipsets, flags, watch, ghost>>

\* createBaseRules, lines 162-177: the egress chain through addChainWithRules.
createBaseRulesEgress ==
  \/ addChainWithRulesNewChain(EgressChain)
  \/ addChainWithRulesList(EgressChain, EgressRuleSpecs(allowMcast), "go")
  \/ addChainWithRulesAppend(EgressChain, EgressRuleSpecs(allowMcast), "go")

\* A root() that starts the pod controller before it installs the base rules.
goEarly ==
  \/ /\ pc = "createBaseRules.Main"
     /\ i = 1
     /\ "pods" \notin started
     /\ started' = started \cup {"pods"}
     /\ UNCHANGED <<chains, ipsets, flags, pc, i, sets, found, lastErr,
                    observed, calls, inflight, quota, ghost>>
  \/ /\ pc = "go"
     /\ started' = started \cup {Resources[i]}
     /\ pc' = (IF i < Len(Resources) THEN "go" ELSE "running")
     /\ Locals(pc', IF i < Len(Resources) THEN i + 1 ELSE 1, <<>>, FALSE)
     /\ lastErr' = FALSE
     \* what the process found when it started is of no use once it serves
     /\ egress0' = NoChain
     /\ ipsets0' = [s \in SetNames |-> NoSet]
     /\ dirty0' = FALSE
     /\ empty0' = FALSE
     /\ UNCHANGED <<chains, ipsets, flags, observed, calls, inflight, quota, restarts>>

\* ------------------------------------------------------ the watch loops
\* root(), lines 340-342: one go statement per call of the action.
go ==
  /\ pc = "go"
  /\ started' = started \cup {Resources[i]}
  /\ pc' = (IF i < Len(Resources) THEN "go" ELSE "running")
  /\ Locals(pc', IF i < Len(Resources) THEN i + 1 ELSE 1, <<>>, FALSE)
  /\ lastErr' = FALSE
  \* what the process found when it started is of no use once it serves
  /\ egress0' = NoChain
  /\ ipsets0' = [s \in SetNames |-> NoSet]
  /\ dirty0' = FALSE
  /\ empty0' = FALSE
  /\ UNCHANGED <<chains, ipsets, flags, observed, calls, inflight, quota, restarts>>

\* What a watch hands to a handler: an object of the resource's type, or the
\* tombstone cache.DeletedFinalStateUnknown that wraps the last known one.
Objs == {"a", "b"}
Object(o) == [tag |-> "object", val |-> o]
DeletedFinalStateUnknown(o) == [tag |-> "DeletedFinalStateUnknown", val |-> o]
NoObject == [tag |-> "none", val |-> "none"]
Events ==
  {[type |-> "Add", old |-> NoObject, obj |-> Object("a")],
   [type |-> "Update", old |-> Object("a"), obj |-> Object("b")],
   [type |-> "Delete", old |-> NoObject, obj |-> Object("b")]}
  \cup {[type |-> "Delete", old |-> NoObject, obj |-> DeletedFinalStateUnknown(o)] : o \in Objs}

Kind(r) ==
  CASE r = "namespaces" -> "Namespace"
    [] r = "pods" -> "Pod"
    [] r = "networkpolicies" -> "NetworkPolicy"

Call(method, kind, args) == [method |-> method, kind |-> kind, args |-> args]

\* AddFunc, lines 277-279, 297-299, 316-318.
AddFunc(r, obj) == <<Call("Add", Kind(r), <<obj>>)>>

\* UpdateFunc, lines 291-293, 311-313, 330-332.
UpdateFunc(r, old, new) == <<Call("Update", Kind(r), <<old, new>>)>>

\* A delete handler without the type switch: the payload goes on as it came.
DeleteFuncRaw(r, obj) == <<Call("Delete", Kind(r), <<obj>>)>>

\* DeleteFunc, lines 280-290, 300-310, 319-329: the type switch on the payload.
DeleteFunc(r, obj) ==
  IF r = "networkpolicies"
  THEN IF obj.tag = "DeletedFinalStateUnknown"
       THEN <<Call("Delete", Kind(r), <<Object(obj.val)>>)>>
       ELSE <<Call("Delete", Kind(r), <<obj>>)>>
  ELSE IF obj.tag = "object"
       THEN <<Call("Delete", Kind(r), <<obj>>)>>
       ELSE IF obj.tag = "DeletedFinalStateUnknown"
       THEN <<Call("Delete", Kind(r), <<Object(obj.val)>>)>>
       ELSE <<>>

\* Handlers wired to the wrong change type: an update is handled as an add.
HandleMisrouted(r, e) ==
  CASE e.type = "Add" -> AddFunc(r, e.obj)
    [] e.type = "Update" -> AddFunc(r, e.obj)
    [] e.type = "Delete" -> DeleteFunc(r, e.obj)

\* cache.ResourceEventHandlerFuncs: the handler of the event's change type.
Handle(r, e) ==
  CASE e.type = "Add" -> AddFunc(r, e.obj)
    [] e.type = "Update" -> UpdateFunc(r, e.old, e.obj)
    [] e.type = "Delete" -> DeleteFunc(r, e.obj)

Alive == pc \in {"go", "running"}

\* A controller that takes the next event while its last call is still running.
DispatchOverlapping(r) ==
  /\ pc \in {"go", "running"}
  /\ r \in started
  /\ quota > 0
  /\ \E e \in Events :
       /\ observed' = [observed EXCEPT ![r] = Append(@, e)]
       /\ calls' = [calls EXCEPT ![r] = @ \o Handle(r, e)]
       /\ inflight' = [inflight EXCEPT ![r] = Handle(r, e) # <<>>]
  /\ quota' = quota - 1
  /\ UNCHANGED <<chains, ipsets, flags, pc, i, sets, found, lastErr, started, ghost>>

\* A controller takes the next event of its watch and its handler calls the
\* policy engine; it takes no other event until that call has returned.
Dispatch(r) ==
  /\ Alive
  /\ r \in started
  /\ ~inflight[r]
  /\ quota > 0
  /\ \E e \in Events :
       /\ observed' = [observed EXCEPT ![r] = Append(@, e)]
       /\ calls' = [calls EXCEPT ![r] = @ \o Handle(r, e)]
       /\ inflight' = [inflight EXCEPT ![r] = Handle(r, e) # <<>>]
  /\ quota' = quota - 1
  /\ UNCHANGED <<chains, ipsets, flags, pc, i, sets, found, lastErr, started, ghost>>

\* A handler that drops the error of the policy engine and serves on.
ReturnIgnoring(r) ==
  /\ pc \in {"go", "running"}
  /\ inflight[r]
  /\ inflight' = [inflight EXCEPT ![r] = FALSE]
  /\ \E err \in BOOLEAN : lastErr' = err
  /\ pc' = pc
  /\ Locals(pc', i, <<>>, FALSE)
  /\ UNCHANGED <<chains, ipsets, flags, started, observed, calls, quota, ghost>>

\* The policy engine call returns; handleError ends the process on an error.
Return(r) ==
  /\ Alive
  /\ inflight[r]
  /\ inflight' = [inflight EXCEPT ![r] = FALSE]
  /\ \E err \in BOOLEAN :
       /\ lastErr' = err
       /\ pc' = handleError(err, pc)
  /\ Locals(pc', i, <<>>, FALSE)
  /\ UNCHANGED <<chains, ipsets, flags, started, observed, calls, quota, ghost>>

\* root(), lines 344-346: SIGINT or SIGTERM ends the process.
Signal ==
  /\ pc = "running"
  /\ pc' = "exited"
  /\ UNCHANGED <<chains, ipsets, flags, i, sets, found, lastErr, watch, ghost>>

\* The supervisor starts the process again, with the same flags, on the
\* packet-filter state the last run left.
Restart ==
  /\ pc \in {"fatal", "exited"}
  /\ restarts < MaxRestarts
  /\ restarts' = restarts + 1
  /\ pc' = "resetIPTables"
  /\ i' = 1
  /\ sets' = <<>>
  /\ found' = FALSE
  /\ lastErr' = FALSE
  /\ started' = {}
  /\ observed' = [r \in Range(Resources) |-> <<>>]
  /\ calls' = [r \in Range(Resources) |-> <<>>]
  /\ inflight' = [r \in Range(Resources) |-> FALSE]
  /\ egress0' = chains[EgressChain]
  /\ ipsets0' = ipsets
  /\ dirty0' = Dirty(chains)
  /\ empty0' = Empty(chains, ipsets)
  /\ quota' = budget
  /\ UNCHANGED <<chains, ipsets, flags>>

Next ==
  \/ resetIPTables
  \/ resetIPSetsList
  \/ resetIPSetsFlush
  \/ resetIPSetsDestroy
  \/ createBaseRulesMain
  \/ createBaseRulesExist
  \/ createBaseRulesCreate
  \/ createBaseRulesAppendLocal
  \/ createBaseRulesMark
  \/ createBaseRulesEgress
  \/ go
  \/ \E r \in Range(Resources) : Dispatch(r)
  \/ \E r \in Range(Resources) : Return(r)
  \/ Signal
  \/ Restart

Spec == Init /\ [][Next]_vars

\* The process on a node that has no chain yet, and no set or a set of pods
\* that an earlier policy engine left, with a longer watch.
InitWatch ==
  /\ NoReconcile
  /\ chains = [c \in ChainNames |-> NoChain]
  /\ \E pod \in {NoSet, Set({PodAddr})} :
       ipsets = [s \in SetNames |-> IF s = PodSet THEN pod ELSE NoSet]
  /\ allowMcast \in BOOLEAN
  /\ legacy \in BOOLEAN
  /\ restarts = 0
  /\ budget = MaxEvents
  /\ quota = budget
  /\ Start(chains, ipsets)

SpecWatch == InitWatch /\ [][Next]_vars

\* ---------------------------------------- addChainWithRules on its own
\* The chain reconciler called twice with the same arguments, as the policy
\* engine does on every update, on a chain of any content.
RuleLists ==
  UNION {[1..n -> {RuleEstablishedReturn, RuleMcastReturn, RuleDrop}] : n \in 0..MaxRules}

InitReconcile ==
  /\ argChain \in {EgressChain, IngressChain}
  /\ argRules \in RuleLists
  /\ ncall = 0
  /\ before = NoChain
  /\ before1 = NoChain
  /\ \E cur \in {NoChain} \cup {Chain(rs) : rs \in RuleLists} :
       chains = [c \in ChainNames |-> IF c = argChain THEN cur ELSE Chain(<<>>)]
  /\ ipsets = [s \in SetNames |-> NoSet]
  /\ allowMcast = TRUE
  /\ legacy = FALSE
  /\ restarts = 0
  /\ budget = 0
  /\ quota = 0
  /\ pc = "idle"
  /\ i = 1
  /\ sets = <<>>
  /\ found = FALSE
  /\ lastErr = FALSE
  /\ started = {}
  /\ observed = [r \in Range(Resources) |-> <<>>]
  /\ calls = [r \in Range(Resources) |-> <<>>]
  /\ inflight = [r \in Range(Resources) |-> FALSE]
  /\ egress0 = NoChain
  /\ ipsets0 = ipsets
  /\ dirty0 = FALSE
  /\ empty0 = FALSE

\* The caller enters addChainWithRules(ipt, table, chain, rulespecs).
Reconcile ==
  /\ pc = "idle"
  /\ ncall < 2
  /\ ncall' = ncall + 1
  /\ before' = chains[argChain]
  /\ before1' = (IF ncall = 0 THEN chains[argChain] ELSE before1)
  /\ pc' = "addChainWithRules.NewChain"
  /\ UNCHANGED <<chains, ipsets, allowMcast, legacy, budget, argChain, argRules,
                 i, sets, found, lastErr, watch, restarts, egress0, ipsets0,
                 dirty0, empty0>>

NextReconcile ==
  \/ Reconcile
  \/ addChainWithRulesNewChain(argChain)
  \/ addChainWithRulesList(argChain, argRules, "idle")
  \/ addChainWithRulesAppend(argChain, argRules, "idle")

SpecReconcile == InitReconcile /\ [][NextReconcile]_vars

TypeOK ==
  /\ pc \in {"resetIPTables", "resetIPSets.List", "resetIPSets.Flush",
             "resetIPSets.Destroy", "createBaseRules.Main", "createBaseRules.Exist",
             "createBaseRules.Create", "createBaseRules.AppendLocal",
             "createBaseRules.Mark", "addChainWithRules.NewChain",
             "addChainWithRules.List", "addChainWithRules.Append",
             "go", "running", "fatal", "exited", "idle"}
  /\ restarts \in 0..MaxRestarts
  /\ quota \in 0..budget

\* ------------------------------------------------------------ properties
BootstrapPCs ==
  {"resetIPTables", "resetIPSets.List", "resetIPSets.Flush", "resetIPSets.Destroy"}

\* resetIPTables and resetIPSets have returned nil; createBaseRules has not
\* made a call yet.
Bootstrapped == pc = "createBaseRules.Main" /\ i = 1

\* createBaseRules has returned nil; no go statement has run yet.
Installed == pc = "go" /\ i = 1

SixChains == ChainNames \ {EgressChain}
Owned == {LocalIpset, NsSet, PodSet}
Rules(c) == Range(chains[c].rules)

\* C1: when the egress chain holds the complete rule list of this configuration
\* as the process starts (legacy off), it holds exactly that list in every
\* state from the first reset call until createBaseRules has returned.
C1_EgressKeptAcrossRestart ==
  (egress0 = Chain(<<RuleEstablishedReturn, RuleNotLocalReturn>>
                     \o (IF allowMcast THEN <<RuleMcastReturn>> ELSE <<>>)
                     \o <<RuleNewEgressDefault, RuleNewEgressCustom, RuleNflog, RuleDrop>>)
     /\ ~legacy)
  => chains[EgressChain] = egress0

C1_Witness ==
  /\ Installed
  /\ ~legacy
  /\ dirty0
  /\ egress0 = Chain(EgressRuleSpecs(allowMcast))
  /\ chains[EgressChain] = egress0

\* C2: while the egress chain holds the rule that returns new connections
\* whose source is not in the local-pods set, the set has not lost a member it
\* had when the process started.
C2_LocalPodsKeepMembers ==
  RuleNotLocalReturn \in Rules(EgressChain)
  => ipsets0[LocalIpset].members \subseteq ipsets[LocalIpset].members

\* C3: once resetIPTables and resetIPSets have succeeded, each of the six
\* chains exists and has no rule.
C3_SixChainsEmpty ==
  Bootstrapped => \A c \in SixChains : chains[c] = Chain(<<>>)

C3_Witness ==
  /\ Bootstrapped
  /\ dirty0
  /\ \A c \in SixChains : chains[c] = Chain(<<>>)

\* C4: no step of resetIPTables or resetIPSets, failing or not, changes the
\* egress chain.
C4_BootstrapKeepsEgress ==
  [][(pc \in BootstrapPCs) => (chains'[EgressChain] = chains[EgressChain])]_vars

C4_Witness ==
  /\ Bootstrapped
  /\ dirty0
  /\ egress0.rules # <<>>
  /\ chains[EgressChain] = egress0

\* C5: once the two resets have succeeded, the local-pods set is the only set
\* with the reserved prefix that may exist, and it exists when it did before.
C5_OnlyLocalPodsLeft ==
  Bootstrapped =>
    /\ \A s \in Owned \ {LocalIpset} : ~ipsets[s].exists
    /\ ipsets0[LocalIpset].exists => ipsets[LocalIpset].exists

C5_Witness ==
  /\ Bootstrapped
  /\ \A s \in Owned : ipsets0[s].exists
  /\ ipsets[LocalIpset].exists
  /\ ~ipsets[NsSet].exists /\ ~ipsets[PodSet].exists

\* C6: the six chains are cleared in the order ingress, default, main,
\* egress-mark, egress-custom, egress-default, all of them before a set is
\* flushed or destroyed; every set with the prefix is flushed before one is
\* destroyed; and when nothing but those chains and those sets refers to such
\* a set (the egress chain only to local-pods), Destroy is never called on a
\* set that a rule or another set still refers to.
C6_ResetOrder ==
  LET order == <<IngressChain, DefaultChain, MainChain, EgressMarkChain,
                 EgressCustomChain, EgressDefaultChain>> IN
  /\ pc = "resetIPTables" => \A k \in 1..(i - 1) : chains[order[k]] = Chain(<<>>)
  /\ pc \in {"resetIPSets.List", "resetIPSets.Flush", "resetIPSets.Destroy"}
       => \A c \in SixChains : chains[c] = Chain(<<>>)
  /\ pc = "resetIPSets.Destroy" => \A s \in Owned : ipsets[s].members = {}
  /\ (/\ pc = "resetIPSets.Destroy"
      /\ ChainRefs(chains, EgressChain) \subseteq {LocalIpset}
      /\ ipsets[ForeignSet].members \cap Owned = {})
       => ~InUse(chains, ipsets, sets[i])

C6_Witness ==
  /\ pc = "resetIPSets.Destroy"
  /\ sets[i] = PodSet
  /\ dirty0
  /\ ipsets0[NsSet].members = {PodSet}
  /\ ChainRefs(chains, EgressChain) \subseteq {LocalIpset}
  /\ ~InUse(chains, ipsets, sets[i])

NoCalls == \A r \in Range(Resources) : calls[r] = <<>>

\* C7: a failing call of resetIPTables or resetIPSets ends the process at
\* once: the packet filter is left as it is, no controller has been started
\* and no policy engine method called, and the process takes no further step
\* (the next step is the start of a new process).
C7_BootstrapFailureAborts ==
  [][/\ ((pc \in BootstrapPCs) /\ lastErr')
          => (/\ pc' = "fatal"
              /\ chains' = chains
              /\ ipsets' = ipsets
              /\ started' = {}
              /\ NoCalls')
     /\ (pc = "fatal")
          => (/\ pc' = "resetIPTables"
              /\ restarts' = restarts + 1
              /\ chains' = chains
              /\ ipsets' = ipsets)]_vars

C7_Witness ==
  /\ pc = "fatal"
  /\ lastErr
  /\ chains[IngressChain] = Chain(<<>>)
  /\ ~chains[EgressDefaultChain].exists
  /\ started = {}
  /\ NoCalls

\* C8: once the resets and createBaseRules have succeeded, the main chain is
\* exactly: accept established, (with multicast) accept 224.0.0.0/4, new to
\* the default chain, new to the ingress chain, accept what is not for a
\* local pod.
C8_MainChainExact ==
  pc \in {"go", "running", "exited"} =>
    chains[MainChain] =
      Chain(IF allowMcast
            THEN <<RuleEstablishedAccept, RuleMcastAccept, RuleNewDefault,
                   RuleNewIngress, RuleNotLocalAccept>>
            ELSE <<RuleEstablishedAccept, RuleNewDefault, RuleNewIngress,
                   RuleNotLocalAccept>>)

C8_Witness ==
  /\ Installed
  /\ dirty0
  /\ allowMcast
  /\ Len(chains[MainChain].rules) = Len(MainHeadRules(TRUE)) + 1

\* The rule list of section 4.2 with multicast allowed.
EgressSequence ==
  <<RuleEstablishedReturn, RuleNotLocalReturn, RuleMcastReturn, RuleNewEgressDefault,
    RuleNewEgressCustom, RuleNflog, RuleDrop>>

\* C9 (amended): from no chain and no set, with multicast allowed and legacy
\* off, the egress chain ends up as the seven rules of section 4.2 in their
\* order, and the local-pods set exists and is empty.
C9_EndToEndEgress ==
  (Installed /\ empty0 /\ allowMcast /\ ~legacy) =>
    /\ chains[EgressChain] = Chain(EgressSequence)
    /\ ipsets[LocalIpset] = Set({})

\* C9 as stated: that sequence has six rules.
C9_SixRuleSequence ==
  (Installed /\ empty0 /\ allowMcast /\ ~legacy) =>
    /\ chains[EgressChain] = Chain(EgressSequence)
    /\ Len(chains[EgressChain].rules) = 6
    /\ ipsets[LocalIpset] = Set({})

C9_Witness ==
  /\ Installed
  /\ empty0
  /\ allowMcast
  /\ ~legacy
  /\ chains[EgressChain].rules = EgressSequence
  /\ ipsets[LocalIpset].exists

\* C10: once the resets and createBaseRules have succeeded, the main chain
\* accepts 224.0.0.0/4 exactly when multicast is allowed, and the egress chain
\* returns on 224.0.0.0/4 exactly when multicast is allowed and legacy is off.
C10_McastRulesFollowFlag ==
  Installed =>
    /\ (RuleMcastAccept \in Rules(MainChain)) <=> allowMcast
    /\ (RuleMcastReturn \in Rules(EgressChain)) <=> (allowMcast /\ ~legacy)

\* ------------------------------------------------------------------ C11
\* C11: the local-pods set exists once the bootstrapper and the installer have
\* succeeded, whether or not it existed when the process started; the installer
\* reaches the create operation only when ipsetExist reported the set absent, so
\* create is never invoked on an existing local-pods set (and only create brings
\* the set into existence); the set exists when the Main rule that names it is
\* appended.
C11_LocalPodsEnsured ==
  /\ [](pc \in {"createBaseRules.Mark", "addChainWithRules.NewChain",
                 "addChainWithRules.List", "addChainWithRules.Append",
                 "go", "running"} => ipsets[LocalIpset].exists)
  /\ [](pc = "createBaseRules.Create" => (~found /\ ~ipsets[LocalIpset].exists))
  /\ [](pc = "createBaseRules.AppendLocal" => ipsets[LocalIpset].exists)
  /\ [][(~ipsets[LocalIpset].exists /\ ipsets'[LocalIpset].exists)
          => (pc = "createBaseRules.Create")]_vars
  /\ [][(pc = "createBaseRules.AppendLocal" /\ chains'[MainChain] # chains[MainChain])
          => (/\ ipsets[LocalIpset].exists
              /\ chains'[MainChain].rules
                   = Append(chains[MainChain].rules, RuleNotLocalAccept))]_vars

\* The installer has succeeded on a node where the set was missing, and on one
\* where it was there already.
C11_Witness ==
  /\ Installed
  /\ ipsets[LocalIpset].exists
  /\ ~ipsets0[LocalIpset].exists

\* ------------------------------------------------------- C12, C13, C20
\* A call of addChainWithRules has returned nil.
Returned == pc = "idle" /\ ncall > 0

\* C12: calling addChainWithRules twice in a row with the same arguments, on
\* any initial content of the chain, appends the rule list exactly once: after
\* the second call the chain is what the first call left, which is the initial
\* content followed by the rule list once.
C12_SecondCallIsNoOp ==
  (Returned /\ ncall = 2)
  => /\ chains[argChain].rules = before.rules
     /\ before.rules = before1.rules \o argRules

C20_ChainEqualsGivenRules ==
  Returned => chains[argChain].rules = argRules

\* ------------------------------------------------------------------ C14
\* C14: every event a watch observed, of each of the three resources and each
\* change type, made exactly one policy engine call: the k-th call of a
\* resource is the method of the k-th event's change type and of the
\* resource's kind, with one object (Add, Delete) or two (Update); a step that
\* takes an event adds one event and one call to one resource and nothing to
\* the others.
C14_OneCallPerEvent ==
  /\ [](\A r \in {"namespaces", "pods", "networkpolicies"} :
          /\ Len(calls[r]) = Len(observed[r])
          /\ \A k \in 1..Len(observed[r]) :
               /\ calls[r][k].method = observed[r][k].type
               /\ calls[r][k].kind = (CASE r = "namespaces" -> "Namespace"
                                        [] r = "pods" -> "Pod"
                                        [] r = "networkpolicies" -> "NetworkPolicy")
               /\ Len(calls[r][k].args)
                    = (IF observed[r][k].type = "Update" THEN 2 ELSE 1))
  /\ [][(pc' = pc /\ observed' # observed)
          => \E r \in {"namespaces", "pods", "networkpolicies"} :
               /\ Len(observed'[r]) = Len(observed[r]) + 1
               /\ Len(calls'[r]) = Len(calls[r]) + 1
               /\ \A q \in {"namespaces", "pods", "networkpolicies"} \ {r} :
                    observed'[q] = observed[q] /\ calls'[q] = calls[q]]_vars

\* An update and then a delete of network policies were dispatched.
C14_Witness ==
  /\ Len(observed["networkpolicies"]) = 2
  /\ observed["networkpolicies"][1].type = "Update"
  /\ observed["networkpolicies"][2].type = "Delete"
  /\ calls["networkpolicies"][1].method = "Update"
  /\ calls["networkpolicies"][2].method = "Delete"

\* ------------------------------------------------------------------ C15
\* C15: for each resource, a delete event made a Delete call whose one argument
\* is the object itself: the value a tombstone wraps when the payload is a
\* tombstone, the payload when it is a live object; never the wrapper, never
\* no object, and the call is never skipped.
C15_TombstoneUnwrapped ==
  \A r \in Range(Resources) :
    \A k \in 1..Len(observed[r]) :
      observed[r][k].type = "Delete"
      => /\ k <= Len(calls[r])
         /\ calls[r][k].method = "Delete"
         /\ calls[r][k].args
              = <<[tag |-> "object", val |-> observed[r][k].obj.val]>>

\* A pod tombstone that wraps b was dispatched, and a live network policy
\* delete.
C15_Witness ==
  /\ Len(observed["pods"]) = 1
  /\ observed["pods"][1].obj = DeletedFinalStateUnknown("b")
  /\ calls["pods"][1].args = <<Object("b")>>
  /\ Len(observed["networkpolicies"]) = 1
  /\ observed["networkpolicies"][1].obj = Object("b")
  /\ observed["networkpolicies"][1].type = "Delete"

\* ------------------------------------------------------------------ C16
\* The call an event is to make.
CallFor(r, e) ==
  [method |-> e.type, kind |-> Kind(r),
   args |-> IF e.type = "Update" THEN <<e.old, e.obj>> ELSE <<Object(e.obj.val)>>]

SetPCs == {"resetIPSets.List", "resetIPSets.Flush", "resetIPSets.Destroy"}
InstallerPCs ==
  {"createBaseRules.Main", "createBaseRules.Exist", "createBaseRules.Create",
   "createBaseRules.AppendLocal", "createBaseRules.Mark",
   "addChainWithRules.NewChain", "addChainWithRules.List",
   "addChainWithRules.Append"}

\* C18: while resetIPTables, resetIPSets or createBaseRules is under way no
\* watch loop runs and no policy engine call was made or is in flight; the
\* three run in that order, each entered only when the one before returned
\* nil, and the first go statement runs only when createBaseRules returned
\* nil; loops start at the go statements only, calls are made only while the
\* process serves, and no step that changes a chain or a set happens beside a
\* policy engine call.
C18_StartupOrder ==
  /\ []((pc \in BootstrapPCs \cup InstallerPCs)
          => (/\ started = {}
              /\ NoCalls
              /\ \A r \in Range(Resources) : ~inflight[r]))
  /\ [][(pc' \in SetPCs /\ pc \notin SetPCs)
          => (pc = "resetIPTables" /\ ~lastErr')]_vars
  /\ [][(pc' \in InstallerPCs /\ pc \notin InstallerPCs)
          => (pc \in SetPCs /\ ~lastErr')]_vars
  /\ [][(pc' = "go" /\ pc # "go")
          => (pc \in InstallerPCs /\ ~lastErr')]_vars
  /\ [][(pc' = "resetIPTables" /\ pc # "resetIPTables")
          => (pc \in {"fatal", "exited"})]_vars
  /\ [][(started' # started /\ started' # {}) => (pc = "go")]_vars
  /\ [][(\E r \in Range(Resources) : Len(calls'[r]) > Len(calls[r]))
          => (pc \in {"go", "running"})]_vars
  /\ [][(chains' # chains \/ ipsets' # ipsets)
          => (NoCalls /\ \A r \in Range(Resources) : ~inflight[r])]_vars

\* The three have returned nil in turn, the three loops run and the first
\* policy engine call is in flight.
C18_Witness ==
  /\ pc = "running"
  /\ started = Range(Resources)
  /\ \E r \in Range(Resources) : inflight[r] /\ Len(calls[r]) = 1

\* ------------------------------------------------------------------ C19
\* The run before this one ended in resetIPTables, resetIPSets or
\* createBaseRules: it left the egress chain short of its rule list.
FailedAtStartup ==
  /\ restarts > 0
  /\ ~legacy
  /\ egress0 # Chain(EgressRuleSpecs(allowMcast))

\* C19: when a run failed at a step of the bootstrapper or of
\* the installer, part-way through the egress appends included, and the
\* process is started again with the same flags and this time the bootstrapper
\* and the installer succeed, the main chain and the egress chain each hold
\* exactly their rule list, with nothing left of the failed run.
C19_RestartConverges ==
  (Installed /\ FailedAtStartup)
  => /\ chains[MainChain] = Chain(Append(MainHeadRules(allowMcast), RuleNotLocalAccept))
     /\ chains[EgressChain] = Chain(EgressRuleSpecs(allowMcast))


============================================================================
